---- MODULE Spec2Model ----
(***************************************************************************)
(* Model of moody-mapper: the face list built from uploaded folders, the   *)
(* GoJS link diagram with its LinkDrawn listener, the import of a saved    *)
(* graph, and the two generateConfigFile exporters (js/mapper.js and       *)
(* composables/mapping.ts) together with the bitmap packer, the run of     *)
(* generateArduinoFaces over the uploaded images, and the history of the   *)
(* pixel editor (components/TheEditor.vue).                                *)
(*                                                                         *)
(* Strings are sequences of UTF-16 code units, so that toUpperCase, the    *)
(* default Array.sort order and localeCompare are computed, not assumed.   *)
(* Node keys and array indexes are 0-based as in the code; a TLA+ sequence *)
(* holds array element k at position k + 1.                                *)
(***************************************************************************)
EXTENDS Integers, Sequences, FiniteSets, TLC

VARIABLES facesDefined, facesArray, nodeDataArray, links, out, image, packOut,
          arduino,
          dataHistory, currentHistoryIndex, currentSaveIndex, isButtonDown,
          holdValue, holdData, previousPointerPosition, currentLayer,
          faceImages, pendingLoads, previewIntervalId

\* The refs of components/TheEditor.vue; faceImages is its computed `faces`,
\* the images of the edited face, and pendingLoads the images whose onload
\* callback has not run yet.
editorVars ==
    <<dataHistory, currentHistoryIndex, currentSaveIndex, isButtonDown,
      holdValue, holdData, previousPointerPosition, currentLayer,
      faceImages, pendingLoads, previewIntervalId>>

vars ==
    <<facesDefined, facesArray, nodeDataArray, links, out, image, packOut,
      arduino, editorVars>>

graphVars == <<facesDefined, facesArray, nodeDataArray, links, out>>

\* Bound on the number of link objects the diagram holds while drawing.
MaxLinks == 2

-----------------------------------------------------------------------------
(* Strings                                                                 *)

\* The folder names a user uploads: "a", "B", "C".
FolderNames == {<<97>>, <<66>>, <<67>>}

\* The literal 'INVALID_FACE'.
INVALID_FACE == <<73, 78, 86, 65, 76, 73, 68, 95, 70, 65, 67, 69>>

UpperChar(c) == IF c >= 97 /\ c <= 122 THEN c - 32 ELSE c

\* String.prototype.toUpperCase
ToUpperCase(s) == [i \in DOMAIN s |-> UpperChar(s[i])]

\* The order of the default Array.prototype.sort: by UTF-16 code unit.
RECURSIVE StrLess(_, _)
StrLess(s, t) ==
    IF t = <<>> THEN FALSE
    ELSE IF s = <<>> THEN TRUE
    ELSE IF Head(s) # Head(t) THEN Head(s) < Head(t)
    ELSE StrLess(Tail(s), Tail(t))

\* a.name.localeCompare(b.name) < 0: letters first, lower case before upper.
LocaleLess(a, b) ==
    IF ToUpperCase(a) # ToUpperCase(b)
    THEN StrLess(ToUpperCase(a), ToUpperCase(b))
    ELSE StrLess(b, a)

RECURSIVE InsertStr(_, _)
InsertStr(x, s) ==
    IF s = <<>> THEN <<x>>
    ELSE IF StrLess(x, Head(s)) THEN <<x>> \o s
    ELSE <<Head(s)>> \o InsertStr(x, Tail(s))

\* array.sort() on an array of strings
RECURSIVE SortStrings(_)
SortStrings(s) ==
    IF s = <<>> THEN <<>> ELSE InsertStr(Head(s), SortStrings(Tail(s)))

\* n copies of the sentinel: Array(n).fill('INVALID_FACE')
Fill(n) == [j \in 1..n |-> INVALID_FACE]

\* map[key].push(token), creating the list when the key is new
Push(map, key, token) ==
    IF key \in DOMAIN map
    THEN [map EXCEPT ![key] = Append(@, token)]
    ELSE map @@ (key :> <<token>>)

EmptyMap == [k \in {} |-> <<>>]

-----------------------------------------------------------------------------
(* Faces                                                                   *)

\* The object URLs of a face's files, named by the folder they came from.
ImagesOf(name) == <<name>>

RECURSIVE InsertFace(_, _)
InsertFace(f, s) ==
    IF s = <<>> THEN <<f>>
    ELSE IF LocaleLess(f.name, Head(s).name) THEN <<f>> \o s
    ELSE <<Head(s)>> \o InsertFace(f, Tail(s))

RECURSIVE FacesOf(_)
FacesOf(S) ==
    IF S = {} THEN <<>>
    ELSE LET n == CHOOSE x \in S : TRUE
         IN InsertFace([name |-> n, images |-> ImagesOf(n)], FacesOf(S \ {n}))

\* createFaceGroups: one face per folder, sorted with localeCompare.
CreateFaceGroups(folders) == FacesOf(folders)

\* displayNodes: one node per face, key = index in facesArray.
DisplayNodes(faces) ==
    [i \in 1..Len(faces) |->
        [key |-> i - 1, name |-> faces[i].name, images |-> faces[i].images]]

FaceNames(faces) == {faces[i].name : i \in DOMAIN faces}

NoOut ==
    [kind |-> "none", threw |-> FALSE, numberFaces |-> 0, defines |-> <<>>,
     maxLinks |-> 0, rows |-> <<>>, faceKeys |-> <<>>, input |-> <<>>,
     nodes |-> <<>>]

NoPack == [kind |-> "none", strings |-> <<>>, data |-> <<>>]

\* generateArduinoFaces has not been called.
NoRun ==
    [status |-> "idle", i |-> 0, j |-> 0, faceData |-> <<>>,
     outputData |-> <<>>, loads |-> <<>>, output |-> <<>>]

\* The editor's refs as they are declared, before the component is mounted.
EditorDeclared ==
    /\ dataHistory = <<>>
    /\ currentHistoryIndex = 0
    /\ currentSaveIndex = 0
    /\ isButtonDown = FALSE
    /\ holdValue = 1
    /\ holdData = <<>>
    /\ previousPointerPosition = [x |-> 0, y |-> 0]
    /\ currentLayer = 0
    /\ faceImages = <<>>
    /\ pendingLoads = <<>>
    /\ previewIntervalId = FALSE

Init ==
    /\ facesDefined = FALSE
    /\ facesArray = <<>>
    /\ nodeDataArray = <<>>
    /\ links = <<>>
    /\ out = NoOut
    /\ image = <<>>
    /\ packOut = NoPack
    /\ arduino = NoRun
    /\ EditorDeclared

\* onChangeImageUpload with a non-empty file list whose supported images lie
\* in `folders` (empty when no file has a supported type).
OnChangeImageUpload(folders) ==
    /\ facesDefined' = TRUE
    /\ facesArray' = CreateFaceGroups(folders)
    /\ nodeDataArray' = DisplayNodes(CreateFaceGroups(folders))
    /\ links' = <<>>
    /\ out' = NoOut
    /\ UNCHANGED <<image, packOut, arduino, editorVars>>

-----------------------------------------------------------------------------
(* The diagram: link drawing, relinking and deletion                       *)

NodeKeys(nodes) == {nodes[i].key : i \in DOMAIN nodes}

\* Both ends of the link are nodes of the diagram.
Connected(l, nodes) == l.from \in NodeKeys(nodes) /\ l.to \in NodeKeys(nodes)

RemoveAt(s, i) == SubSeq(s, 1, i - 1) \o SubSeq(s, i + 1, Len(s))

\* node.findLinksOutOf(): positions of the links that leave node `key`.
RECURSIVE LinksOutOf(_, _, _)
LinksOutOf(ls, key, i) ==
    IF i > Len(ls) THEN <<>>
    ELSE (IF ls[i].from = key THEN <<i>> ELSE <<>>) \o LinksOutOf(ls, key, i + 1)

\* The linking tools' validity check with the template's settings: self-links
\* are allowed (fromLinkableSelfNode, toLinkableSelfNode), a second link in
\* the same direction between the same nodes is not (the duplicates settings
\* are left at their default); `skip` is the link being relinked, 0 if none.
IsValidLink(ls, nodes, f, t, skip) ==
    /\ f \in NodeKeys(nodes)
    /\ t \in NodeKeys(nodes)
    /\ \A i \in DOMAIN ls : i # skip => ~(ls[i].from = f /\ ls[i].to = t)

\* The while loop of the LinkDrawn listener over the links out of toNode.
RECURSIVE ListenerLoop(_, _, _)
ListenerLoop(items, st, subjectFrom) ==
    IF items = <<>> THEN st
    ELSE LET i == Head(items)
             st1 == IF st.ls[i].to = subjectFrom
                    THEN [removed |-> TRUE,
                          ls |-> [st.ls EXCEPT ![i].isBiDirectional = TRUE]]
                    ELSE st
         IN ListenerLoop(Tail(items), st1, subjectFrom)

\* The listener without faces.remove(e.subject): the drawn link stays.
LinkDrawnListenerKeepsDrawn(ls, s) ==
    LET ls0 == [ls EXCEPT ![s].isBiDirectional = FALSE]
    IN ListenerLoop(LinksOutOf(ls0, ls0[s].to, 1),
                    [removed |-> FALSE, ls |-> ls0], ls0[s].from).ls

\* The LinkDrawn listener; the drawn link (e.subject) is at position s.
LinkDrawnListener(ls, s) ==
    LET ls0 == [ls EXCEPT ![s].isBiDirectional = FALSE]
        st == ListenerLoop(LinksOutOf(ls0, ls0[s].to, 1),
                           [removed |-> FALSE, ls |-> ls0], ls0[s].from)
    IN IF st.removed THEN RemoveAt(st.ls, s) ELSE st.ls

\* The user draws a link from node f to node t; the listener then runs.
DrawLink(f, t) ==
    /\ Len(links) < MaxLinks
    /\ IsValidLink(links, nodeDataArray, f, t, 0)
    /\ links' = LinkDrawnListener(
                    Append(links, [from |-> f, to |-> t, isBiDirectional |-> FALSE]),
                    Len(links) + 1)
    /\ out' = NoOut
    /\ UNCHANGED <<facesDefined, facesArray, nodeDataArray, image, packOut, arduino, editorVars>>

\* relinkableFrom: the user drags the from end of link i to node k. No
\* listener is registered for it. The link joins the out-links of k last.
RelinkFrom(i, k) ==
    /\ i \in DOMAIN links
    /\ Connected(links[i], nodeDataArray)
    /\ k # links[i].from
    /\ IsValidLink(links, nodeDataArray, k, links[i].to, i)
    /\ links' = Append(RemoveAt(links, i), [links[i] EXCEPT !.from = k])
    /\ out' = NoOut
    /\ UNCHANGED <<facesDefined, facesArray, nodeDataArray, image, packOut, arduino, editorVars>>

\* relinkableTo: the user drags the to end of link i to node k.
RelinkTo(i, k) ==
    /\ i \in DOMAIN links
    /\ Connected(links[i], nodeDataArray)
    /\ k # links[i].to
    /\ IsValidLink(links, nodeDataArray, links[i].from, k, i)
    /\ links' = [links EXCEPT ![i].to = k]
    /\ out' = NoOut
    /\ UNCHANGED <<facesDefined, facesArray, nodeDataArray, image, packOut, arduino, editorVars>>

\* The user selects link i and deletes it.
DeleteLink(i) ==
    /\ i \in DOMAIN links
    /\ Connected(links[i], nodeDataArray)
    /\ links' = RemoveAt(links, i)
    /\ out' = NoOut
    /\ UNCHANGED <<facesDefined, facesArray, nodeDataArray, image, packOut, arduino, editorVars>>

-----------------------------------------------------------------------------
(* js/mapper.js: the export of the mapping table                           *)

\* generateDefines: '#define NAME index' per face, in face-list order.
GenerateDefines(faces) ==
    [i \in 1..Len(faces) |-> [name |-> ToUpperCase(faces[i].name), index |-> i - 1]]

MaxOf(S) == IF S = {} THEN 0 ELSE CHOOSE m \in S : \A x \in S : x <= m

\* getMaxLinks: the longest list of the mappings object, 0 when it is empty.
GetMaxLinks(mappings) == MaxOf({Len(mappings[k]) : k \in DOMAIN mappings})

\* addMapping(map, key, facesArray[index]); reading .name of a face that
\* does not exist raises a TypeError, recorded in `threw`.
AddMappingJs(m, key, index, faces) ==
    IF m.threw THEN m
    ELSE IF index + 1 \notin DOMAIN faces THEN [m EXCEPT !.threw = TRUE]
    ELSE [m EXCEPT !.map = Push(m.map, key, ToUpperCase(faces[index + 1].name))]

\* The links visited by diagram.nodes.each / node.findLinksOutOf().
RECURSIVE VisitedLinks(_, _)
VisitedLinks(nodes, ls) ==
    IF nodes = <<>> THEN <<>>
    ELSE LinksOutOf(ls, Head(nodes).key, 1) \o VisitedLinks(Tail(nodes), ls)

RECURSIVE MapLinksJs(_, _, _, _)
MapLinksJs(items, ls, m, faces) ==
    IF items = <<>> THEN m
    ELSE LET data == ls[Head(items)]
             m1 == AddMappingJs(m, data.from, data.to, faces)
             m2 == IF data.isBiDirectional
                   THEN AddMappingJs(m1, data.to, data.from, faces)
                   ELSE m1
         IN MapLinksJs(Tail(items), ls, m2, faces)

\* generateMappings of mapper.js
GenerateMappingsJs(nodes, ls, faces) ==
    MapLinksJs(VisitedLinks(nodes, ls), ls, [map |-> EmptyMap, threw |-> FALSE], faces)

\* The while loop that pushes 'INVALID_FACE' until the list has max entries.
PadJs(list, max) == list \o Fill(max - Len(list))

\* generateFileMappings of mapper.js: one row per face, looked up by index.
GenerateFileMappingsJs(mappings, max, faces) ==
    [i \in 1..Len(faces) |->
        IF (i - 1) \in DOMAIN mappings THEN PadJs(mappings[i - 1], max) ELSE Fill(max)]

\* generateConfigFile of mapper.js
GenerateConfigFileJs(nodes, ls, faces) ==
    LET m == GenerateMappingsJs(nodes, ls, faces)
        maxLinks == GetMaxLinks(m.map)
    IN IF m.threw THEN [NoOut EXCEPT !.kind = "js", !.threw = TRUE]
       ELSE [NoOut EXCEPT !.kind = "js",
                          !.numberFaces = Len(faces),
                          !.defines = GenerateDefines(faces),
                          !.maxLinks = maxLinks,
                          !.rows = GenerateFileMappingsJs(m.map, maxLinks, faces)]

\* onClickExport: an alert when facesArray is undefined, else the download.
OnClickExport ==
    /\ out' = IF ~facesDefined THEN [NoOut EXCEPT !.kind = "alert"]
              ELSE GenerateConfigFileJs(nodeDataArray, links, facesArray)
    /\ UNCHANGED <<facesDefined, facesArray, nodeDataArray, links, image, packOut, arduino, editorVars>>

-----------------------------------------------------------------------------
(* composables/mapping.ts: the export of the mapping table                 *)

\* graphConfig.cells: the node cells {id, name} and the link cells
\* {source: {id}, target: {id}, isBiDirectional} of the same diagram.
NodeCells(nodes) == nodes

LinkCells(ls) == ls

HasCell(id, nodes) == \E i \in DOMAIN nodes : nodes[i].key = id

\* getElementNameById (the cell is known to exist)
GetElementNameById(id, nodes) ==
    nodes[CHOOSE i \in DOMAIN nodes : nodes[i].key = id].name

\* The forEach body of generateMappings; .name of a cell that find() did
\* not return raises a TypeError, recorded in `threw`.
AddLinkTs(m, link, nodes, faces) ==
    IF m.threw THEN m
    ELSE IF ~HasCell(link.from, nodes) \/ ~HasCell(link.to, nodes)
    THEN [m EXCEPT !.threw = TRUE]
    ELSE LET from == GetElementNameById(link.from, nodes)
             to == GetElementNameById(link.to, nodes)
         IN IF to \notin FaceNames(faces) THEN m
            ELSE [m EXCEPT !.map = Push(m.map, from, ToUpperCase(to))]

RECURSIVE MapLinksTs(_, _, _, _)
MapLinksTs(cells, m, nodes, faces) ==
    IF cells = <<>> THEN m
    ELSE MapLinksTs(Tail(cells), AddLinkTs(m, Head(cells), nodes, faces), nodes, faces)

\* generateMappings of mapping.ts
GenerateMappingsTs(nodes, ls, faces) ==
    MapLinksTs(LinkCells(ls), [map |-> EmptyMap, threw |-> FALSE], NodeCells(nodes), faces)

\* generateFileMappings of mapping.ts: sorted, padded, looked up by name.
GenerateFileMappingsTs(mappings, max, faces) ==
    [i \in 1..Len(faces) |->
        IF faces[i].name \in DOMAIN mappings
        THEN SortStrings(mappings[faces[i].name])
                 \o Fill(max - Len(mappings[faces[i].name]))
        ELSE Fill(max)]

\* generateConfigFile of mapping.ts
GenerateConfigFileTs(nodes, ls, faces) ==
    LET m == GenerateMappingsTs(nodes, ls, faces)
        maxLinks == GetMaxLinks(m.map)
    IN IF m.threw THEN [NoOut EXCEPT !.kind = "ts", !.threw = TRUE]
       ELSE [NoOut EXCEPT !.kind = "ts",
                          !.numberFaces = Len(faces),
                          !.defines = GenerateDefines(faces),
                          !.maxLinks = maxLinks,
                          !.rows = GenerateFileMappingsTs(m.map, maxLinks, faces)]

ExportConfigTs ==
    /\ out' = GenerateConfigFileTs(nodeDataArray, links, facesArray)
    /\ UNCHANGED <<facesDefined, facesArray, nodeDataArray, links, image, packOut, arduino, editorVars>>

\* generateArduinoFaces: the faces in the order of the sorted faceKeys.
ArduinoFaceKeys(faces) == SortStrings([i \in 1..Len(faces) |-> faces[i].name])

ExportArduinoFaces ==
    /\ out' = [NoOut EXCEPT !.kind = "arduino",
                            !.faceKeys = ArduinoFaceKeys(facesArray)]
    /\ UNCHANGED <<facesDefined, facesArray, nodeDataArray, links, image, packOut, arduino, editorVars>>

-----------------------------------------------------------------------------
(* js/mapper.js: saving and importing a graph                              *)

\* onClickSave: the model's JSON with the images stripped from the nodes.
SavedNodes(nodes) == [i \in DOMAIN nodes |-> [nodes[i] EXCEPT !.images = <<>>]]

\* The link data of one drawn link: LinkDrawn has set its flag to false, and
\* a drawn self-link does not survive the listener.
DrawnLinks(keys) ==
    {[from |-> f, to |-> t, isBiDirectional |-> FALSE] :
        f \in keys, t \in keys} \ {[from |-> k, to |-> k, isBiDirectional |-> FALSE] : k \in keys}

\* The files a user can hold: saved in an earlier session right after an
\* upload of some folders, with no link or with one link drawn.
SavedFiles ==
    UNION {
        LET nodes == SavedNodes(DisplayNodes(CreateFaceGroups(folders)))
        IN {[nodeDataArray |-> nodes, linkDataArray |-> ls] :
                ls \in {<<>>} \cup {<<l>> : l \in DrawnLinks(NodeKeys(nodes))}}
        : folders \in (SUBSET FolderNames) \ {{}} }

\* What 'delete array[key]' leaves behind: an empty slot.
Hole == [key |-> -1, name |-> <<>>, images |-> <<>>]

\* The forEach body of onChangeImport for the entry at index i - 1 of the
\* array as it was when Object.entries listed it.
ImportEntry(arr, node, i, faces) ==
    IF node.name \in FaceNames(faces)
    THEN IF i \in DOMAIN arr /\ arr[i] # Hole
         THEN [arr EXCEPT ![i].images = ImagesOf(node.name)]
         ELSE arr
    ELSE LET deleted == IF i \in DOMAIN arr THEN [arr EXCEPT ![i] = Hole] ELSE arr
         IN SubSeq(deleted, 1, Len(deleted) - 1)

RECURSIVE ImportLoop(_, _, _, _)
ImportLoop(entries, arr, i, faces) ==
    IF i > Len(entries) THEN arr
    ELSE ImportLoop(entries, ImportEntry(arr, entries[i], i, faces), i + 1, faces)

\* rawData.nodeDataArray as fr.onload leaves it for go.Model.fromJson.
ImportedNodes(fileNodes, faces) == ImportLoop(fileNodes, fileNodes, 1, faces)

HasHole(arr) == \E i \in DOMAIN arr : arr[i] = Hole

\* onChangeImport and the FileReader callback. An array with an empty slot
\* is serialised with null in it, which go.Model.fromJson cannot turn into a
\* node: the callback ends in an exception and the model stays as it was.
OnChangeImport(file) ==
    /\ facesDefined
    /\ Len(facesArray) > 0
    /\ LET arr == ImportedNodes(file.nodeDataArray, facesArray)
       IN /\ out' = [NoOut EXCEPT !.kind = "import", !.threw = HasHole(arr),
                                  !.input = file.nodeDataArray, !.nodes = arr]
          /\ IF HasHole(arr)
             THEN UNCHANGED <<nodeDataArray, links>>
             ELSE /\ nodeDataArray' = arr
                  /\ links' = file.linkDataArray
    /\ UNCHANGED <<facesDefined, facesArray, image, packOut, arduino, editorVars>>

Next ==
    \/ \E folders \in SUBSET FolderNames : OnChangeImageUpload(folders)
    \/ \E f, t \in NodeKeys(nodeDataArray) : DrawLink(f, t)
    \/ \E i \in DOMAIN links, k \in NodeKeys(nodeDataArray) : RelinkFrom(i, k)
    \/ \E i \in DOMAIN links, k \in NodeKeys(nodeDataArray) : RelinkTo(i, k)
    \/ \E i \in DOMAIN links : DeleteLink(i)
    \/ \E file \in SavedFiles : OnChangeImport(file)
    \/ OnClickExport
    \/ ExportConfigTs
    \/ ExportArduinoFaces

Spec == Init /\ [][Next]_vars

-----------------------------------------------------------------------------
(* Properties                                                              *)

\* The name of the node with key k (k is a key of the diagram).
NodeName(k) == nodeDataArray[CHOOSE i \in DOMAIN nodeDataArray : nodeDataArray[i].key = k].name

\* The position of the face called `name` in the face list.
FaceIndex(name) == CHOOSE i \in DOMAIN facesArray : facesArray[i].name = name

\* The links that join two nodes of the diagram.
JoinedLinks == {i \in DOMAIN links : Connected(links[i], nodeDataArray)}

\* The transitions the link set allows, as pairs of face names: a link gives
\* from -> to, and to -> from as well when it is bidirectional.
Connectivity ==
    {<<NodeName(links[i].from), NodeName(links[i].to)>> : i \in JoinedLinks}
    \cup {<<NodeName(links[i].to), NodeName(links[i].from)>> :
              i \in {j \in JoinedLinks : links[j].isBiDirectional}}

OutDegree(name) == Cardinality({e \in Connectivity : e[1] = name})

\* A mapping table has just been emitted by one of the generateConfigFile.
TableEmitted == out.kind \in {"js", "ts"} /\ ~out.threw

\* The tokens of a row that are not the sentinel, in order.
OutList(row) == SelectSeq(row, LAMBDA tok : tok # INVALID_FACE)

Count(row, tok) == Cardinality({k \in DOMAIN row : row[k] = tok})

\* The diagram is as displayNodes built it: one node per face, key = index.
DiagramOfUpload == nodeDataArray = DisplayNodes(facesArray)

\* C1: the emitted table has one row per face, every row has maxLinks
\* tokens, and maxLinks is the largest out-degree of a face (0 without
\* links); stated for the diagrams an upload built and the user edited.
C1_TableShape ==
    (TableEmitted /\ DiagramOfUpload) =>
        /\ Len(out.rows) = Len(facesArray)
        /\ \A i \in DOMAIN out.rows : Len(out.rows[i]) = out.maxLinks
        /\ out.maxLinks = MaxOf({OutDegree(facesArray[i].name) : i \in DOMAIN facesArray})

\* C2: the row of a link's source holds the upper-case name of its target,
\* and for a bidirectional link each endpoint's row holds the other
\* endpoint's name exactly once; stated for the diagrams an upload built and
\* the user edited.
C2_BidirectionalOnce ==
    (TableEmitted /\ DiagramOfUpload) =>
        \A i \in JoinedLinks :
            LET from == NodeName(links[i].from)
                to == NodeName(links[i].to)
            IN /\ Count(out.rows[FaceIndex(from)], ToUpperCase(to)) >= 1
               /\ links[i].isBiDirectional =>
                      /\ Count(out.rows[FaceIndex(from)], ToUpperCase(to)) = 1
                      /\ Count(out.rows[FaceIndex(to)], ToUpperCase(from)) = 1

\* The link from node f to node t, if there is one.
LinkFromTo(f, t) == {i \in DOMAIN links : links[i].from = f /\ links[i].to = t}

C4_OneLinkPerPair ==
    \A i, j \in JoinedLinks :
        i # j => {links[i].from, links[i].to} # {links[j].from, links[j].to}

Sorted(row) == \A k \in 1..(Len(row) - 1) : ~StrLess(row[k + 1], row[k])

\* C5: every row is upper-case face names in ascending order, then only
\* sentinels up to maxLinks.
C5_RowFormat ==
    TableEmitted =>
        \A i \in DOMAIN out.rows :
            LET row == out.rows[i]
                names == OutList(row)
            IN /\ row = names \o Fill(out.maxLinks - Len(names))
               /\ Sorted(names)
               /\ \A k \in DOMAIN names :
                      /\ names[k] = ToUpperCase(names[k])
                      /\ \E g \in FaceNames(facesArray) : names[k] = ToUpperCase(g)

\* The edges read back from the emitted table: row i belongs to face i, a
\* token names the face with that upper-case name.
DecodedEdges ==
    UNION {
        {<<facesArray[i].name, g>> :
            g \in {h \in FaceNames(facesArray) :
                      \E k \in DOMAIN out.rows[i] : out.rows[i][k] = ToUpperCase(h)}}
        : i \in DOMAIN out.rows }

\* C6: the edges read back from the table are the link set's connectivity;
\* stated for the link sets whose links all join two nodes of the diagram.
C6_RoundTrip ==
    (TableEmitted /\ JoinedLinks = DOMAIN links) => DecodedEdges = Connectivity

\* C7: entry k of allFaces belongs to the face whose #define gives it k, for
\* every k (and so to the same face as row k of nextFaces).
C7_SameIndex ==
    out.kind = "arduino" =>
        /\ Len(out.faceKeys) = Len(facesArray)
        /\ \A k \in DOMAIN out.faceKeys :
               /\ GenerateDefines(facesArray)[k].index = k - 1
               /\ GenerateDefines(facesArray)[k].name = ToUpperCase(out.faceKeys[k])

\* A link whose target is a node of the diagram named like a face.
TargetResolves(l) ==
    /\ l.to \in NodeKeys(nodeDataArray)
    /\ NodeName(l.to) \in FaceNames(facesArray)

ResolvedLinks == SelectSeq(links, TargetResolves)

\* C9: with links whose target resolves to no face or node, the export
\* raises nothing and emits what it emits without those links.
C9_UnresolvedDropped ==
    (out.kind \in {"js", "ts"}
        /\ \A i \in DOMAIN links : links[i].from \in NodeKeys(nodeDataArray)) =>
        /\ ~out.threw
        /\ out.kind = "js" =>
               out = GenerateConfigFileJs(nodeDataArray, ResolvedLinks, facesArray)
        /\ out.kind = "ts" =>
               out = GenerateConfigFileTs(nodeDataArray, ResolvedLinks, facesArray)

\* The entries of the file whose name is the name of a loaded face, each
\* with that face's images.
MatchedEntries(fileNodes) ==
    LET kept == SelectSeq(fileNodes, LAMBDA n : n.name \in FaceNames(facesArray))
    IN [k \in DOMAIN kept |-> [kept[k] EXCEPT !.images = ImagesOf(kept[k].name)]]

\* C10: the import does not fail and leaves exactly the matched entries.
C10_ImportFilters ==
    out.kind = "import" =>
        /\ ~out.threw
        /\ out.nodes = MatchedEntries(out.input)
        /\ nodeDataArray = out.nodes


\* C11: an export made while no face is loaded ends in the warning, and
\* download is not called.
C11_NoFacesRejected ==
    (out.kind \in {"js", "alert"} /\ facesArray = <<>>) => out.kind = "alert"

-----------------------------------------------------------------------------
(* The bitmap packer and the editor's image decode                         *)

IMAGE_WIDTH == 32

IMAGE_HEIGHT == 16

NumPixels == IMAGE_WIDTH * IMAGE_HEIGHT

\* Red-channel values an image's pixels take in the checked images.
RedSamples == {0, 1, 128, 254, 255}

\* The checked images, as the red value of each pixel in row-major order:
\* all white or all black, but for one pixel of any sampled value.
TestImages ==
    {[i \in 1..NumPixels |-> IF i = p THEN r ELSE b] :
        p \in 1..NumPixels, r \in RedSamples, b \in {0, 255}}

\* ctx.getImageData(0, 0, width, height).data: four bytes per pixel, red
\* first; index j is 0-based.
PixelData(img) ==
    [j \in 0..(4 * Len(img) - 1) |-> IF j % 4 = 0 THEN img[(j \div 4) + 1] ELSE 255]

\* Array.from(pixelData, (_, i) => pixelData[i * 4]) without the undefined
\* entries, each mapped by (val ? 0 : 1).
RedChannelData(pixelData) ==
    LET n == Cardinality(DOMAIN pixelData)
        defined == {i \in 0..(n - 1) : (i * 4) \in DOMAIN pixelData}
    IN [k \in 1..Cardinality(defined) |-> IF pixelData[(k - 1) * 4] # 0 THEN 0 ELSE 1]

Min(a, b) == IF a < b THEN a ELSE b

\* `0b${slice.join("")}` as code units: '0', 'b', then the digits.
BinaryString(slice) == <<48, 98>> \o [k \in DOMAIN slice |-> 48 + slice[k]]

\* generateBinaryStrings
GenerateBinaryStrings(pixelData) ==
    LET red == RedChannelData(pixelData)
    IN [c \in 1..((Len(red) + 7) \div 8) |->
           BinaryString(SubSeq(red, 8 * (c - 1) + 1, Min(8 * c, Len(red))))]

\* generateDataFromImg: data[x][y], 1 when the red value is below 255.
GenerateDataFromImg(img) ==
    [x \in 0..(IMAGE_WIDTH - 1) |->
        [y \in 0..(IMAGE_HEIGHT - 1) |->
            IF img[y * IMAGE_WIDTH + x + 1] < 255 THEN 1 ELSE 0]]

PackInit ==
    /\ facesDefined = FALSE
    /\ facesArray = <<>>
    /\ nodeDataArray = <<>>
    /\ links = <<>>
    /\ out = NoOut
    /\ image \in TestImages
    /\ packOut = NoPack
    /\ arduino = NoRun
    /\ EditorDeclared

\* The packer reads the image drawn on the offscreen canvas.
PackImage ==
    /\ packOut' = [NoPack EXCEPT !.kind = "pack",
                                 !.strings = GenerateBinaryStrings(PixelData(image))]
    /\ UNCHANGED <<graphVars, image, arduino, editorVars>>

\* The editor decodes the same image.
DecodeImage ==
    /\ packOut' = [NoPack EXCEPT !.kind = "decode",
                                 !.data = GenerateDataFromImg(image)]
    /\ UNCHANGED <<graphVars, image, arduino, editorVars>>

PackNext ==
    \/ PackImage
    \/ DecodeImage

PackSpec == PackInit /\ [][PackNext]_vars

\* The digit of pixel p (1-based, row-major) in the emitted literals: eight
\* digits per literal, after the two code units of '0b'.
DigitOfPixel(strings, p) == strings[((p - 1) \div 8) + 1][3 + ((p - 1) % 8)]

\* C8: the packer emits 1 for a pixel exactly when its red value is below
\* 255, as the editor's decode classifies it, and 0 when it is 255.
C8_PackerThreshold ==
    /\ packOut.kind = "pack" =>
           \A p \in 1..NumPixels :
               DigitOfPixel(packOut.strings, p) = (IF image[p] < 255 THEN 49 ELSE 48)
    /\ packOut.kind = "decode" =>
           \A x \in 0..(IMAGE_WIDTH - 1), y \in 0..(IMAGE_HEIGHT - 1) :
               packOut.data[x][y] = (IF image[y * IMAGE_WIDTH + x + 1] < 255 THEN 1 ELSE 0)

-----------------------------------------------------------------------------
(* Uploads of several files per folder, and generateArduinoFaces            *)

\* Bound on the number of files of one upload.
MaxFiles == 3

SUPPORTED_IMAGE_TYPES == {"image/jpeg", "image/png", "image/bmp"}

\* A 32x16 image with one black pixel, as the red value of each pixel.
OnePixelImage == [p \in 1..NumPixels |-> IF p = 1 THEN 0 ELSE 255]

\* What a failed decode yields.
Broken == <<>>

\* The pixels behind an object URL: the file at "blob:image" is an image,
\* the file at "blob:broken" is none and its decode fails.
Decoded(url) == IF url = "blob:image" THEN OnePixelImage ELSE Broken

\* The uploaded files: the folder of webkitRelativePath, the type and the
\* object URL that URL.createObjectURL gives the file.
UploadedFiles ==
    {[folder |-> <<97>>, type |-> "image/png", url |-> "blob:image"],
     [folder |-> <<97>>, type |-> "image/png", url |-> "blob:broken"],
     [folder |-> <<66>>, type |-> "image/png", url |-> "blob:image"],
     [folder |-> <<66>>, type |-> "text/plain", url |-> "blob:broken"]}

FileLists == UNION {[1..n -> UploadedFiles] : n \in 1..MaxFiles}

\* faceGroups[faceName] = [...faceGroups[faceName], URL.createObjectURL(file)];
\* the groups are kept in the order in which their keys were created.
AddFile(groups, file) ==
    IF \E k \in DOMAIN groups : groups[k].name = file.folder
    THEN LET k == CHOOSE k \in DOMAIN groups : groups[k].name = file.folder
         IN [groups EXCEPT ![k].images = Append(@, file.url)]
    ELSE Append(groups, [name |-> file.folder, images |-> <<file.url>>])

\* The filter on the file type and the forEach that fills faceGroups.
RECURSIVE GroupFiles(_, _)
GroupFiles(files, groups) ==
    IF files = <<>> THEN groups
    ELSE GroupFiles(Tail(files),
                    IF Head(files).type \in SUPPORTED_IMAGE_TYPES
                    THEN AddFile(groups, Head(files))
                    ELSE groups)

RECURSIVE SortFaces(_)
SortFaces(groups) ==
    IF groups = <<>> THEN <<>>
    ELSE InsertFace(Head(groups), SortFaces(Tail(groups)))

\* createFaceGroups on a file list: every supported file of a folder is an
\* image of that folder's face.
CreateFaceGroupsFromFiles(files) == SortFaces(GroupFiles(files, <<>>))

\* onChangeImageUpload with the non-empty file list `files`.
UploadFiles(files) ==
    /\ arduino.status # "running"
    /\ facesDefined' = TRUE
    /\ facesArray' = CreateFaceGroupsFromFiles(files)
    /\ nodeDataArray' = DisplayNodes(CreateFaceGroupsFromFiles(files))
    /\ links' = <<>>
    /\ out' = NoOut
    /\ UNCHANGED <<image, packOut, arduino, editorVars>>

\* faces.value.find((item) => item.name === name)?.images || []
ImagesOfFace(faces, name) ==
    IF \E k \in DOMAIN faces : faces[k].name = name
    THEN faces[CHOOSE k \in DOMAIN faces : faces[k].name = name].images
    ELSE <<>>

\* generateArduinoFaces from the loop position (i, j) up to its next await:
\* a finished face is pushed to outputData, the finished loop resolves with
\* the table, and otherwise loadImage(face[j]) is called.
RECURSIVE RunToAwait(_, _)
RunToAwait(g, faces) ==
    LET faceKeys == ArduinoFaceKeys(faces)
    IN IF g.i >= Len(faceKeys)
       THEN [g EXCEPT !.status = "resolved", !.output = g.outputData]
       ELSE LET face == ImagesOfFace(faces, faceKeys[g.i + 1])
            IN IF g.j >= Len(face)
               THEN RunToAwait([g EXCEPT !.outputData = Append(@, g.faceData),
                                         !.faceData = <<>>,
                                         !.i = @ + 1,
                                         !.j = 0], faces)
               ELSE [g EXCEPT !.loads = Append(@, face[g.j + 1])]

\* The URL of the image whose load the call awaits.
AwaitedImage == arduino.loads[Len(arduino.loads)]

\* A call of generateArduinoFaces; the 2d context of an OffscreenCanvas is
\* taken to exist.
GenerateArduinoFaces ==
    /\ arduino.status # "running"
    /\ arduino' = RunToAwait([NoRun EXCEPT !.status = "running"], facesArray)
    /\ UNCHANGED <<graphVars, image, packOut, editorVars>>

\* img.onload: the awaited image is drawn and packed, and the loop goes on.
OnLoad(g, img, faces) ==
    RunToAwait([g EXCEPT !.faceData = Append(@, GenerateBinaryStrings(PixelData(img))),
                         !.j = @ + 1], faces)

\* The same with blank data in the place of an image that failed to decode.
OnErrorBlankData(g, faces) ==
    RunToAwait([g EXCEPT !.faceData =
                             Append(@, GenerateBinaryStrings(
                                           PixelData([p \in 1..NumPixels |-> 255]))),
                         !.j = @ + 1], faces)

\* img.onerror: the awaited promise rejects and the exception leaves
\* generateArduinoFaces, whose promise rejects.
OnError(g, faces) == [g EXCEPT !.status = "rejected"]

LoadImageResolved ==
    /\ arduino.status = "running"
    /\ Decoded(AwaitedImage) # Broken
    /\ arduino' = OnLoad(arduino, Decoded(AwaitedImage), facesArray)
    /\ UNCHANGED <<graphVars, image, packOut, editorVars>>

LoadImageRejected ==
    /\ arduino.status = "running"
    /\ Decoded(AwaitedImage) = Broken
    /\ arduino' = OnError(arduino, facesArray)
    /\ UNCHANGED <<graphVars, image, packOut, editorVars>>

ArduinoNext ==
    \/ \E files \in FileLists : UploadFiles(files)
    \/ GenerateArduinoFaces
    \/ LoadImageResolved
    \/ LoadImageRejected

ArduinoSpec == Init /\ [][ArduinoNext]_vars

\* C12: a failed decode rejects generateArduinoFaces: the call returns no
\* table, nothing is put in the place of the failed image, and from then
\* on the call loads and packs no further image.
C12_DecodeFailureRejects ==
    /\ [][LoadImageRejected =>
              /\ arduino'.status = "rejected"
              /\ arduino'.output = NoRun.output
              /\ arduino'.faceData = arduino.faceData
              /\ arduino'.outputData = arduino.outputData
              /\ arduino'.loads = arduino.loads]_vars
    /\ [][arduino.status = "rejected" =>
              (arduino' = arduino \/ GenerateArduinoFaces)]_vars

\* A call rejected on a face's image after an earlier face was packed and
\* with a further image of the face still to come.
C12_Witness ==
    /\ arduino.status = "rejected"
    /\ arduino.outputData # <<>>
    /\ arduino.j + 1 <
           Len(ImagesOfFace(facesArray, ArduinoFaceKeys(facesArray)[arduino.i + 1]))

\* '0b' followed by exactly eight bit characters.
IsByteLiteral(str) ==
    /\ Len(str) = 10
    /\ str[1] = 48
    /\ str[2] = 98
    /\ \A k \in 3..10 : str[k] \in {48, 49}

\* C13: every face of the emitted table has exactly 2 layer rows of exactly
\* 64 literals, each '0b' and eight bits.
C13_TableDimensions ==
    arduino.status = "resolved" =>
        \A f \in DOMAIN arduino.output :
            /\ Len(arduino.output[f]) = 2
            /\ \A l \in DOMAIN arduino.output[f] :
                   /\ Len(arduino.output[f][l]) = 64
                   /\ \A k \in DOMAIN arduino.output[f][l] :
                          IsByteLiteral(arduino.output[f][l][k])

-----------------------------------------------------------------------------
(* components/TheEditor.vue: the pixel editor and its history              *)

\* Bound on the length of dataHistory: an entry is added while it fits.
MaxHistory == 2

\* Bound on the number of images whose onload callback is outstanding.
MaxPending == 1

nonEditorVars == <<graphVars, image, packOut, arduino>>

\* The pixels the pointer presses and moves over: the two in the middle of
\* the top row, which mirror copies one onto the other.
PointerPixels == {[x |-> 15, y |-> 0], [x |-> 16, y |-> 0]}

\* getEmptyData: data[x][y] = 0.
GetEmptyData ==
    [x \in 0..(IMAGE_WIDTH - 1) |-> [y \in 0..(IMAGE_HEIGHT - 1) |-> 0]]

\* imageData.toDataURL() after fillCanvasFromData(undefined, imageDataCtx, 1):
\* a pixel is black where the data is set and white elsewhere.
ImageOfData(data) ==
    [p \in 1..NumPixels |->
        IF data[(p - 1) % IMAGE_WIDTH][(p - 1) \div IMAGE_WIDTH] # 0
        THEN 0 ELSE 255]

\* The images of the face the editor is opened for: two blank layers.
EditedFaces == {<<ImageOfData(GetEmptyData), ImageOfData(GetEmptyData)>>}

\* onMounted has run: holdData holds a grid.
Mounted == holdData # <<>>

\* currentData is defined: dataHistory[currentHistoryIndex] exists.
CurrentDataDefined == (currentHistoryIndex + 1) \in DOMAIN dataHistory

CurrentData == dataHistory[currentHistoryIndex + 1]

HasUnsavedChanges == currentHistoryIndex # currentSaveIndex

\* addHistory: the history up to index `index`, then `data`.
AddHistory(history, index, data) ==
    Append(SubSeq(history, 1, Min(index + 1, Len(history))), data)

\* The entry addHistory adds at index `index` fits the bound.
Fits(index) == Min(index + 1, Len(dataHistory)) < MaxHistory

\* loadBackgroundLayer: the next layer's image is drawn right after its src
\* is set, when it may or may not be available yet; fillCanvasFromData then
\* writes the decoded data, empty if nothing was drawn, into holdData.
BackgroundLayerData(layer, images) ==
    {GetEmptyData,
     GenerateDataFromImg(images[((layer + 1) % Len(images)) + 1])}

\* onMounted for a face with the images `images`: holdData is the empty
\* grid, the current layer's image starts to load, and the background layer
\* is drawn.
OnMounted(images) ==
    /\ ~Mounted
    /\ faceImages' = images
    /\ pendingLoads' = <<images[currentLayer + 1]>>
    /\ holdData' \in BackgroundLayerData(currentLayer, images)
    /\ UNCHANGED <<dataHistory, currentHistoryIndex, currentSaveIndex,
                   isButtonDown, holdValue, previousPointerPosition,
                   currentLayer, previewIntervalId, nonEditorVars>>

\* img.onload of loadImageBase64 -> loadImage: the decoded grid is added to
\* the history and drawn (fillPixel writes it into holdData).
ImageLoaded(k) ==
    /\ Mounted
    /\ Fits(currentHistoryIndex)
    /\ LET data == GenerateDataFromImg(pendingLoads[k])
           history == AddHistory(dataHistory, currentHistoryIndex, data)
       IN /\ dataHistory' = history
          /\ currentHistoryIndex' = Len(history) - 1
          /\ holdData' = data
    /\ pendingLoads' = RemoveAt(pendingLoads, k)
    /\ UNCHANGED <<currentSaveIndex, isButtonDown, holdValue,
                   previousPointerPosition, currentLayer, faceImages,
                   previewIntervalId, nonEditorVars>>

Abs(n) == IF n < 0 THEN 0 - n ELSE n

\* onPixelClick on the pixel p of the grid canvas, which is hidden during a
\* preview. Reading currentData[x] of an empty history is a TypeError that
\* ends the handler after previousPointerPosition was set.
OnPixelClick(p) ==
    /\ Mounted
    /\ ~previewIntervalId
    /\ previousPointerPosition' = p
    /\ IF CurrentDataDefined
       THEN /\ Fits(currentHistoryIndex)
            /\ LET pixelData == Abs(CurrentData[p.x][p.y] - 1)
                   data == [CurrentData EXCEPT ![p.x][p.y] = pixelData]
                   history == AddHistory(dataHistory, currentHistoryIndex, data)
               IN /\ dataHistory' = history
                  /\ currentHistoryIndex' = Len(history) - 1
                  /\ holdValue' = pixelData
                  /\ holdData' = data
            /\ isButtonDown' = TRUE
       ELSE UNCHANGED <<dataHistory, currentHistoryIndex, holdValue, holdData,
                        isButtonDown>>
    /\ UNCHANGED <<currentSaveIndex, currentLayer, faceImages, pendingLoads,
                   previewIntervalId, nonEditorVars>>

\* drawLine (Bresenham) from (x0, y0) towards (line.x1, line.y1): each pixel
\* before the end point gets holdValue through fillPixel(.., false), which
\* writes holdData and not the history.
RECURSIVE DrawLineLoop(_, _, _, _, _)
DrawLineLoop(hold, x0, y0, err, line) ==
    IF x0 = line.x1 /\ y0 = line.y1 THEN hold
    ELSE LET err2 == err * 2
             stepX == err2 > 0 - line.deltaY
             errX == IF stepX THEN err - line.deltaY ELSE err
             stepY == err2 < line.deltaX
         IN DrawLineLoop([hold EXCEPT ![x0][y0] = holdValue],
                         IF stepX THEN x0 + line.slopeX ELSE x0,
                         IF stepY THEN y0 + line.slopeY ELSE y0,
                         IF stepY THEN errX + line.deltaX ELSE errX,
                         line)

DrawLine(hold, x0, y0, x1, y1) ==
    DrawLineLoop(hold, x0, y0, Abs(x1 - x0) - Abs(y1 - y0),
                 [x1 |-> x1, y1 |-> y1,
                  deltaX |-> Abs(x1 - x0), deltaY |-> Abs(y1 - y0),
                  slopeX |-> IF x0 < x1 THEN 1 ELSE -1,
                  slopeY |-> IF y0 < y1 THEN 1 ELSE -1])

\* onPointerMove over the pixel p while the button is down and the pixel
\* does not have holdValue yet; in every other case no ref of the history
\* changes.
OnPointerMove(p) ==
    /\ Mounted
    /\ ~previewIntervalId
    /\ isButtonDown
    /\ CurrentDataDefined
    /\ CurrentData[p.x][p.y] # holdValue
    /\ holdData' = DrawLine(holdData, p.x, p.y,
                            previousPointerPosition.x, previousPointerPosition.y)
    /\ previousPointerPosition' = p
    /\ UNCHANGED <<dataHistory, currentHistoryIndex, currentSaveIndex,
                   isButtonDown, holdValue, currentLayer, faceImages,
                   pendingLoads, previewIntervalId, nonEditorVars>>

\* JSON.stringify(holdData) !== JSON.stringify(currentData.value): holdData
\* is the ref and not its value, so the left side is the text of an object
\* and never that of the grid array on the right.
HoldDataDiffers == TRUE

\* onPointerUp, for the release that follows a press on the grid (mouseup,
\* touchend, or mouseout while the button is down).
OnPointerUp ==
    /\ Mounted
    /\ ~previewIntervalId
    /\ isButtonDown
    /\ isButtonDown' = FALSE
    /\ IF HoldDataDiffers
       THEN LET index == IF currentHistoryIndex - 1 > 0
                         THEN currentHistoryIndex - 1 ELSE 0
                history == AddHistory(dataHistory, index, holdData)
            IN /\ Fits(index)
               /\ dataHistory' = history
               /\ currentHistoryIndex' = Len(history) - 1
       ELSE UNCHANGED <<dataHistory, currentHistoryIndex>>
    /\ UNCHANGED <<currentSaveIndex, holdValue, holdData,
                   previousPointerPosition, currentLayer, faceImages,
                   pendingLoads, previewIntervalId, nonEditorVars>>

\* wipePixelCanvas: the empty grid is added and copied into holdData.
WipePixelCanvas ==
    /\ Mounted
    /\ Fits(currentHistoryIndex)
    /\ LET history == AddHistory(dataHistory, currentHistoryIndex, GetEmptyData)
       IN /\ dataHistory' = history
          /\ currentHistoryIndex' = Len(history) - 1
    /\ holdData' = GetEmptyData
    /\ UNCHANGED <<currentSaveIndex, isButtonDown, holdValue,
                   previousPointerPosition, currentLayer, faceImages,
                   pendingLoads, previewIntervalId, nonEditorVars>>

\* data[data.length - i - 1] = [...data[i]] for every i < data.length / 2.
MirrorData(data) ==
    [x \in DOMAIN data |->
        IF 2 * (IMAGE_WIDTH - 1 - x) < IMAGE_WIDTH
        THEN data[IMAGE_WIDTH - 1 - x] ELSE data[x]]

\* mirror; JSON.parse(JSON.stringify(undefined)) of an empty history is a
\* SyntaxError that ends the handler before anything changes.
Mirror ==
    /\ Mounted
    /\ CurrentDataDefined
    /\ Fits(currentHistoryIndex)
    /\ LET data == MirrorData(CurrentData)
           history == AddHistory(dataHistory, currentHistoryIndex, data)
       IN /\ dataHistory' = history
          /\ currentHistoryIndex' = Len(history) - 1
          /\ holdData' = data
    /\ UNCHANGED <<currentSaveIndex, isButtonDown, holdValue,
                   previousPointerPosition, currentLayer, faceImages,
                   pendingLoads, previewIntervalId, nonEditorVars>>

\* historyPrevious: one entry back, drawn by fillCanvasFromData().
HistoryPrevious ==
    /\ Mounted
    /\ currentHistoryIndex > 0
    /\ currentHistoryIndex' = currentHistoryIndex - 1
    /\ holdData' = IF currentHistoryIndex \in DOMAIN dataHistory
                   THEN dataHistory[currentHistoryIndex] ELSE holdData
    /\ UNCHANGED <<dataHistory, currentSaveIndex, isButtonDown, holdValue,
                   previousPointerPosition, currentLayer, faceImages,
                   pendingLoads, previewIntervalId, nonEditorVars>>

\* historyNext: one entry forward, drawn by fillCanvasFromData().
HistoryNext ==
    /\ Mounted
    /\ currentHistoryIndex < Len(dataHistory) - 1
    /\ currentHistoryIndex' = currentHistoryIndex + 1
    /\ holdData' = dataHistory[currentHistoryIndex + 2]
    /\ UNCHANGED <<dataHistory, currentSaveIndex, isButtonDown, holdValue,
                   previousPointerPosition, currentLayer, faceImages,
                   pendingLoads, previewIntervalId, nonEditorVars>>

\* save: the current grid is drawn on the image canvas (and so written into
\* holdData), stored as the image of the current layer, and the save index
\* follows the history index. With an empty history fillCanvasFromData
\* throws a TypeError before anything changes.
Save ==
    /\ Mounted
    /\ CurrentDataDefined
    /\ holdData' = CurrentData
    /\ faceImages' = [faceImages EXCEPT ![currentLayer + 1] = ImageOfData(CurrentData)]
    /\ currentSaveIndex' = currentHistoryIndex
    /\ UNCHANGED <<dataHistory, currentHistoryIndex, isButtonDown, holdValue,
                   previousPointerPosition, currentLayer, pendingLoads,
                   previewIntervalId, nonEditorVars>>

\* confirmUnsaved returns true: there is no unsaved change, or the user
\* answers the confirm dialog with `answer` = TRUE.
ConfirmUnsaved(answer) == ~(HasUnsavedChanges /\ ~answer)

\* preview, confirmed: wipeHistory, currentSaveIndex = 0, and the interval
\* that switches the layer every second is set, or cleared if it was set.
Preview(answer) ==
    /\ Mounted
    /\ ConfirmUnsaved(answer)
    /\ dataHistory' = <<>>
    /\ currentHistoryIndex' = 0
    /\ currentSaveIndex' = 0
    /\ previewIntervalId' = ~previewIntervalId
    /\ UNCHANGED <<isButtonDown, holdValue, holdData, previousPointerPosition,
                   currentLayer, faceImages, pendingLoads, nonEditorVars>>

\* layer, confirmed, from the button, the key or the preview interval:
\* wipeHistory, currentSaveIndex = 0, the next layer's image starts to load
\* and the background layer is drawn.
Layer(answer) ==
    /\ Mounted
    /\ ConfirmUnsaved(answer)
    /\ Len(pendingLoads) < MaxPending
    /\ dataHistory' = <<>>
    /\ currentHistoryIndex' = 0
    /\ currentSaveIndex' = 0
    /\ LET next == (currentLayer + 1) % Len(faceImages)
       IN /\ currentLayer' = next
          /\ pendingLoads' = Append(pendingLoads, faceImages[next + 1])
          /\ holdData' \in BackgroundLayerData(next, faceImages)
    /\ UNCHANGED <<isButtonDown, holdValue, previousPointerPosition,
                   faceImages, previewIntervalId, nonEditorVars>>

\* The operations that edit, undo, redo and save one layer.
EditingNext ==
    \/ \E images \in EditedFaces : OnMounted(images)
    \/ \E k \in DOMAIN pendingLoads : ImageLoaded(k)
    \/ \E p \in PointerPixels : OnPixelClick(p)
    \/ \E p \in PointerPixels : OnPointerMove(p)
    \/ OnPointerUp
    \/ WipePixelCanvas
    \/ Mirror
    \/ HistoryPrevious
    \/ HistoryNext
    \/ Save

EditingSpec == Init /\ [][EditingNext]_vars

\* All the editor's operations.
EditorNext ==
    \/ EditingNext
    \/ \E answer \in BOOLEAN : Preview(answer)
    \/ \E answer \in BOOLEAN : Layer(answer)

EditorSpec == Init /\ [][EditorNext]_vars

\* The grid stored for the current layer: the one last saved, or the one
\* the layer was loaded from if nothing was saved yet.
SavedData == GenerateDataFromImg(faceImages[currentLayer + 1])

\* C14: after edits, undo, redo and save, whenever hasUnsavedChanges is
\* false the current grid is the saved grid.
C14_NoUnsavedChangesMeansSaved ==
    (Mounted /\ CurrentDataDefined /\ ~HasUnsavedChanges) =>
        CurrentData = SavedData

\* C15: once the editor is mounted and no image load is outstanding, the
\* history is non-empty and currentHistoryIndex is one of its indexes, so
\* that the current grid is defined for every operation that reads it.
C15_CurrentDataDefined ==
    (Mounted /\ pendingLoads = <<>>) =>
        /\ Len(dataHistory) > 0
        /\ currentHistoryIndex >= 0
        /\ currentHistoryIndex < Len(dataHistory)

====
